---- MODULE Spec2Model ----
(***************************************************************************)
(* Model of the realtime coordination layer of quicktalk_be:               *)
(*   - the presence registry and socket handlers of server.js              *)
(*   - the chat/group mutation handlers of chatController.js               *)
(*   - the message dispatch handler (messageController.js)                 *)
(* Identifiers live in one integer namespace, as the source keeps user     *)
(* ids, chat ids and socket ids in one namespace of strings:               *)
(*   0 = absent (undefined / null), 1..4 = user ids,                       *)
(*   11.. = chat ids, 21.. = socket ids, 31.. = message ids.               *)
(***************************************************************************)
EXTENDS Integers, Sequences, FiniteSets, Bags, TLC

\* ------------------------------------------------------------------ bounds
\* Number of sockets that may ever connect (socket ids are never reused).
NumConns == 2
\* Number of HTTP requests ever issued to the controllers.
MaxRequests == 2
\* Number of signaling events ever sent by clients.
MaxSignals == 1

\* ------------------------------------------------------------- identifiers
None == 0
Users == 1..4
\* Identities that sockets announce in "setup" (any value a client sends).
SetupIds == {1, 2}
Conns == {20 + i : i \in 1..NumConns}
\* Chat 11 exists at start; every request creates at most one more chat.
ChatIds == {10 + i : i \in 1..(MaxRequests + 1)}
\* Values clients send in request bodies.
Requesters == {1, 2}
Names == {"n1"}
Abouts == {"a1"}
Pics == {"p1"}
\* users arrays sent to createGroupChat (before deduplication).
GroupInputs == {<<2>>, <<2, 2>>, <<2, 3>>, <<3, 4>>}
\* userIds arrays sent to addToGroup (before deduplication).
AddInputs == {<<>>, <<4>>, <<4, 4>>, <<1, 2>>}
\* An id that is well-formed and names no User document.
NoSuchUser == 5
\* Id arrays that name it, for createGroupChat and addToGroup.
GroupInputsAny == GroupInputs \cup {<<2, NoSuchUser>>}
AddInputsAny == AddInputs \cup {<<NoSuchUser>>, <<4, NoSuchUser>>}
\* Chats named in requests: the group of Init and a chat id that is absent at
\* first and is the first one a create hands out.
ReqChats == {11, 12}
\* Message bodies.
Contents == {"hi", ""}
\* Rooms a client names in "join chat": nothing, a chat room, a personal room.
JoinRooms == {None, 11, 1}

VARIABLES
  \* --- server.js: socket layer
  sockets,        \* socket id -> "fresh" | "open" | "closed"
  userData,       \* socket.userData._id (None until setup)
  rooms,          \* socket.rooms, without the socket's own-id room
  onlineUsers,    \* the object { userId: socketId } in insertion order
  lastOnlineList, \* payload of the last "get online users" broadcast
  everSetup,      \* history: user id -> sockets that ever completed setup as it
  received,       \* socket id -> sequence of events delivered to it
  relayLog,       \* history: the signaling events handled so far
  lastEmit,       \* history: the sockets the last "get online users" and the
                  \* last "connected" were delivered to
  \* --- persisted store (MongoDB collections)
  chats,          \* Chat collection: chat id -> document (exists = FALSE: absent)
  chatSeq,        \* number of Chat documents ever created
  messages,       \* Message collection: set of documents
  msgSeq,         \* number of Message documents ever created
  \* --- HTTP requests (async controller calls)
  procs,          \* bag of the calls in flight or just answered
  issued          \* number of requests received so far

presenceVars == <<sockets, userData, rooms, onlineUsers, lastOnlineList, everSetup>>
chatVars == <<received, chats, chatSeq, messages, msgSeq, procs, issued>>
vars == <<sockets, userData, rooms, onlineUsers, lastOnlineList, everSetup, relayLog,
          lastEmit,
          received, chats, chatSeq, messages, msgSeq, procs, issued>>

\* ------------------------------------------------- the onlineUsers object
\* onlineUsers is a JS object with string keys: a sequence of <<key, value>>
\* pairs in insertion order, at most one pair per key.
HasKey(o, u) == \E i \in 1..Len(o) : o[i][1] = u

\* onlineUsers[u]  (None when the key is absent)
Lookup(o, u) ==
  IF HasKey(o, u) THEN o[CHOOSE i \in 1..Len(o) : o[i][1] = u][2] ELSE None

\* Object.keys(onlineUsers)
Keys(o) == [i \in 1..Len(o) |-> o[i][1]]

\* onlineUsers[u] = s : an existing key keeps its position
SetEntryMoveLast(o, u, s) == Append(SelectSeq(o, LAMBDA e : e[1] # u), <<u, s>>)
SetEntry(o, u, s) ==
  IF HasKey(o, u)
    THEN [i \in 1..Len(o) |-> IF o[i][1] = u THEN <<u, s>> ELSE o[i]]
    ELSE Append(o, <<u, s>>)

\* delete onlineUsers[u]
DeleteEntry(o, u) == SelectSeq(o, LAMBDA e : e[1] # u)

\* Object.keys(onlineUsers).find(userId => onlineUsers[userId] === socketId)
getUserIdFromSocketId(o, s) ==
  IF \E i \in 1..Len(o) : o[i][2] = s
    THEN o[CHOOSE i \in 1..Len(o) :
             /\ o[i][2] = s
             /\ \A j \in 1..(i - 1) : o[j][2] # s][1]
    ELSE None

SeqToSet(s) == {s[i] : i \in 1..Len(s)}

\* ------------------------------------------------------------------- Init
InitPresence ==
  /\ sockets = [c \in Conns |-> "fresh"]
  /\ userData = [c \in Conns |-> None]
  /\ rooms = [c \in Conns |-> {}]
  /\ onlineUsers = <<>>
  /\ lastOnlineList = <<>>
  /\ everSetup = [u \in SetupIds |-> {}]
  /\ relayLog = <<>>
  /\ lastEmit = [listTo |-> {}, ackTo |-> None]

\* A Chat document (models/Chat.js); users is kept as a set: no handler ever
\* stores a duplicate member.
NoChat ==
  [exists |-> FALSE, isGroupChat |-> FALSE, users |-> {}, chatName |-> "",
   groupAdmin |-> None, about |-> "", groupPic |-> "", latestMessage |-> None,
   updatedAt |-> 0]

NewGroup(name, members, admin) ==
  [exists |-> TRUE, isGroupChat |-> TRUE, users |-> members, chatName |-> name,
   groupAdmin |-> admin, about |-> "", groupPic |-> "", latestMessage |-> None,
   updatedAt |-> 0]

NewDirect(a, b) ==
  [exists |-> TRUE, isGroupChat |-> FALSE, users |-> {a, b}, chatName |-> "sender",
   groupAdmin |-> None, about |-> "", groupPic |-> "", latestMessage |-> None,
   updatedAt |-> 0]

\* { timestamps: true }: every update stamps updatedAt; the stamp is kept as
\* the document's logical time, the number of updates applied to it.
Touch(doc) == [doc EXCEPT !.updatedAt = @ + 1]

\* "r is the admin of group ch" (groupAdmin of models/Chat.js), as the
\* history fields of a call record it.
IsGroupAdmin(ch, r) == ch.exists /\ ch.isGroupChat /\ ch.groupAdmin = r

\* A controller call: its position, arguments, locals and response.
IdleProc ==
  [pc |-> "idle", op |-> "none", requester |-> None, chatId |-> None,
   target |-> None, ids |-> {}, doc |-> NoChat, msg |-> None, res |-> "none",
   wrote |-> FALSE, emitted |-> {},
   \* history: what held in the store state the call's first read saw, and
   \* in the store state its write was applied to
   adminAt0 |-> FALSE, memberAt0 |-> FALSE, authAtWrite |-> FALSE,
   \* history: the first read found a direct chat of the pair; populateChat
   \* returned null
   foundAt0 |-> FALSE, popFailed |-> FALSE,
   \* history: number of members the chat had at the call's first read
   sizeAt0 |-> 0,
   \* history: the id array of the request body, the members at the call's
   \* first read, the document before and after the call's write, and the
   \* personal rooms "added to group" was emitted to
   input |-> <<>>, usersAt0 |-> {}, before |-> NoChat, after |-> NoChat,
   notified |-> {},
   \* history: the call's message was in the store when its events went out
   msgStored |-> FALSE]

\* The store holds the group that user 1 created with users [2, 3]
\* (createGroupChat): chat 11, members {1, 2, 3}, admin 1.
InitChat ==
  /\ received = [c \in Conns |-> <<>>]
  /\ chats = [c \in ChatIds |-> IF c = 11 THEN NewGroup("n0", {1, 2, 3}, 1) ELSE NoChat]
  /\ chatSeq = 1
  /\ messages = {}
  /\ msgSeq = 0
  /\ procs = EmptyBag
  /\ issued = 0

Init == InitPresence /\ InitChat

\* --------------------------------------------------- server.js handlers
\* io.emit(..): every connected socket
Connected(sk) == {s \in DOMAIN sk : sk[s] = "open"}

\* io.on("connection")
Connect(c) ==
  /\ sockets[c] = "fresh"
  /\ sockets' = [sockets EXCEPT ![c] = "open"]
  /\ UNCHANGED <<userData, rooms, onlineUsers, lastOnlineList, everSetup, lastEmit>>
  /\ UNCHANGED <<chatVars, relayLog>>

\* socket.on("setup", userData); u = None stands for a missing userData._id
Setup(c, u) ==
  /\ sockets[c] = "open"
  /\ IF u = None
       THEN UNCHANGED <<userData, rooms, onlineUsers, lastOnlineList, everSetup, lastEmit>>
       ELSE /\ rooms' = [rooms EXCEPT ![c] = @ \cup {u}]
            /\ userData' = [userData EXCEPT ![c] = u]
            /\ onlineUsers' = SetEntry(onlineUsers, u, c)
            /\ lastOnlineList' = Keys(onlineUsers')
            /\ everSetup' = [everSetup EXCEPT ![u] = @ \cup {c}]
            /\ lastEmit' = [listTo |-> Connected(sockets), ackTo |-> c]
  /\ UNCHANGED sockets
  /\ UNCHANGED <<chatVars, relayLog>>

\* socket.on("join chat", chatId); r = None stands for a missing chatId
JoinChat(c, r) ==
  /\ sockets[c] = "open"
  /\ rooms' = [rooms EXCEPT ![c] = IF r = None THEN @ ELSE @ \cup {r}]
  /\ UNCHANGED <<sockets, userData, onlineUsers, lastOnlineList, everSetup, lastEmit>>
  /\ UNCHANGED <<chatVars, relayLog>>

\* socket.on("disconnect"): socket.io has already emptied socket.rooms
Disconnect(c) ==
  LET disconnectedUserId == getUserIdFromSocketId(onlineUsers, c) IN
  /\ sockets[c] = "open"
  /\ sockets' = [sockets EXCEPT ![c] = "closed"]
  /\ rooms' = [rooms EXCEPT ![c] = {}]
  /\ IF disconnectedUserId # None
       THEN /\ onlineUsers' = DeleteEntry(onlineUsers, disconnectedUserId)
            /\ lastOnlineList' = Keys(onlineUsers')
            /\ lastEmit' = [lastEmit EXCEPT !.listTo = Connected(sockets')]
       ELSE UNCHANGED <<onlineUsers, lastOnlineList, lastEmit>>
  /\ userData' = [userData EXCEPT ![c] = None]
  /\ UNCHANGED everSetup
  /\ UNCHANGED <<chatVars, relayLog>>

\* ------------------------------------------- server.js: WebRTC signaling
\* an emitted event; room is filled in on delivery
Event(name, c, payload) == [name |-> name, chat |-> c, doc |-> payload, room |-> None]

\* io.to(socketId).emit(..): the room named by a socket id holds that socket
\* while it is connected (and any socket that joined a room of that name)
DeliverToSocket(rcv, socketId, ev) ==
  [s \in DOMAIN rcv |->
     IF (s = socketId /\ sockets[s] = "open") \/ socketId \in rooms[s]
       THEN Append(rcv[s], [ev EXCEPT !.room = socketId])
       ELSE rcv[s]]

\* what a handler's step records about itself
RelayEntry(c, kind, to, from, rcv) ==
  [kind |-> kind, sender |-> c, senderId |-> userData[c], to |-> to,
   dest |-> Lookup(onlineUsers, to), from |-> from,
   destState |-> IF Lookup(onlineUsers, to) = None THEN "none"
                 ELSE sockets[Lookup(onlineUsers, to)],
   delivered |-> {s \in DOMAIN received : rcv[s] # received[s]}]

RelayNotifySender(c, kind, evName, to, from) ==
  LET recipientSocketId == Lookup(onlineUsers, to)
      ev == Event(evName, None, [from |-> from])
      unavailable == Event("call-user-unavailable", None, [from |-> to])
  IN
  /\ sockets[c] = "open"
  /\ Len(relayLog) < MaxSignals
  /\ received' = IF recipientSocketId # None
                   THEN DeliverToSocket(received, recipientSocketId, ev)
                   ELSE DeliverToSocket(received, c, unavailable)
  /\ relayLog' = Append(relayLog, RelayEntry(c, kind, to, from, received'))
  /\ UNCHANGED <<sockets, userData, rooms, onlineUsers, lastOnlineList, everSetup, lastEmit>>
  /\ UNCHANGED <<chats, chatSeq, messages, msgSeq, procs, issued>>
\* The common shape of the four handlers: resolve the target identity in
\* onlineUsers and, if it has an entry, emit evName with the given "from" to
\* the socket id found; otherwise nothing (a warning is logged at most).
Relay(c, kind, evName, to, from) ==
  LET recipientSocketId == Lookup(onlineUsers, to)
      ev == Event(evName, None, [from |-> from])
  IN
  /\ sockets[c] = "open"
  /\ Len(relayLog) < MaxSignals
  /\ received' = IF recipientSocketId # None
                   THEN DeliverToSocket(received, recipientSocketId, ev)
                   ELSE received
  /\ relayLog' = Append(relayLog, RelayEntry(c, kind, to, from, received'))
  /\ UNCHANGED <<sockets, userData, rooms, onlineUsers, lastOnlineList, everSetup, lastEmit>>
  /\ UNCHANGED <<chats, chatSeq, messages, msgSeq, procs, issued>>

\* socket.on("call-user", ({ userToCall, signalData, from, name, callType }))
\* forwards the "from" the client sent
CallUser(c, userToCall, from) == Relay(c, "call-user", "call-incoming", userToCall, from)

\* socket.on("call-accepted", ({ to, signal })): from is socket.userData?._id
CallAccepted(c, to) == Relay(c, "call-accepted", "call-accepted", to, userData[c])

\* socket.on("signal", ({ to, signal }))
Signal(c, to) == Relay(c, "signal", "signal", to, userData[c])

\* socket.on("call-ended", ({ to }))
CallEnded(c, to) == Relay(c, "call-ended", "call-ended", to, userData[c])

\* ------------------------------------------- server.js: typing indicators
\* socket.to(room).emit(..): the sockets joined to room, except the sender
DeliverIncludingSender(rcv, sender, room, ev) ==
  [s \in DOMAIN rcv |->
     IF room \in rooms[s]
       THEN Append(rcv[s], [ev EXCEPT !.room = room])
       ELSE rcv[s]]
DeliverExceptSender(rcv, sender, room, ev) ==
  [s \in DOMAIN rcv |->
     IF room \in rooms[s] /\ s # sender
       THEN Append(rcv[s], [ev EXCEPT !.room = room])
       ELSE rcv[s]]

\* The shape of both handlers: return unless a room is named and the socket
\* has userData, else emit { userId, chatId } to the others in the room.
\* chatId = None stands for a missing chatId.
TypingRelay(c, evName, chatId) ==
  LET ev == Event(evName, chatId, [userId |-> userData[c]]) IN
  /\ sockets[c] = "open"
  /\ Len(relayLog) < MaxSignals
  /\ received' = IF chatId = None \/ userData[c] = None
                   THEN received
                   ELSE DeliverExceptSender(received, c, chatId, ev)
  /\ relayLog' = Append(relayLog,
                        [kind |-> evName, sender |-> c, senderId |-> userData[c],
                         to |-> chatId, dest |-> None, from |-> userData[c],
                         destState |-> "none",
                         delivered |-> {s \in DOMAIN received :
                                          received'[s] # received[s]}])
  /\ UNCHANGED <<sockets, userData, rooms, onlineUsers, lastOnlineList, everSetup, lastEmit>>
  /\ UNCHANGED <<chats, chatSeq, messages, msgSeq, procs, issued>>

\* socket.on("typing", (chatId))
Typing(c, chatId) == TypingRelay(c, "typing", chatId)

\* socket.on("stop typing", (chatId))
StopTyping(c, chatId) == TypingRelay(c, "stop typing", chatId)

\* Sockets that connect, set up, join room 11, type and disconnect
NextTyping ==
  \/ \E c \in Conns : Connect(c)
  \/ \E c \in Conns, u \in SetupIds : Setup(c, u)
  \/ \E c \in Conns : JoinChat(c, 11)
  \/ \E c \in Conns : Disconnect(c)
  \/ \E c \in Conns, r \in {None, 11} : Typing(c, r)
  \/ \E c \in Conns, r \in {None, 11} : StopTyping(c, r)

NextRelay ==
  \/ \E c \in Conns : Connect(c)
  \/ \E c \in Conns, u \in SetupIds : Setup(c, u)
  \/ \E c \in Conns : Disconnect(c)
  \/ \E c \in Conns, to \in SetupIds, from \in SetupIds : CallUser(c, to, from)
  \/ \E c \in Conns, to \in SetupIds : CallAccepted(c, to)
  \/ \E c \in Conns, to \in SetupIds : Signal(c, to)
  \/ \E c \in Conns, to \in SetupIds : CallEnded(c, to)

NextPresence ==
  \/ \E c \in Conns : Connect(c)
  \/ \E c \in Conns, u \in SetupIds \cup {None} : Setup(c, u)
  \/ \E c \in Conns, r \in JoinRooms : JoinChat(c, r)
  \/ \E c \in Conns : Disconnect(c)

SpecPresence == Init /\ [][NextPresence]_vars

SpecRelay == Init /\ [][NextRelay]_vars

SpecTyping == Init /\ [][NextTyping]_vars

\* ------------------------------------------------ controller helpers
\* Chat.findById(c): the stored document, NoChat when there is none
ChatAt(c) == IF c \in ChatIds THEN chats[c] ELSE NoChat

\* Query { _id: chatId, isGroupChat: true, groupAdmin: requesterId }
AdminMatchNoAdmin(ch, r) == ch.exists /\ ch.isGroupChat
AdminMatch(ch, r) == ch.exists /\ ch.isGroupChat /\ ch.groupAdmin = r

\* Query of transferAdmin: AdminMatch and { users: newAdminId }
TransferMatchAnyRequester(ch, r, n) == ch.exists /\ ch.isGroupChat /\ n \in ch.users
TransferMatchNoMember(ch, r, n) == AdminMatch(ch, r)
TransferMatch(ch, r, n) == AdminMatch(ch, r) /\ n \in ch.users

\* The secondary read that classifies a failed match; op and n select the
\* extra membership branch of transferAdmin.
DiagnoseNoTypeCheck(ch, r, op, n) ==
  IF ~ch.exists THEN "notfound"
  ELSE IF ch.groupAdmin # r THEN "notadmin"
  ELSE IF op = "transferAdmin" /\ n \notin ch.users THEN "notmember"
  ELSE "unknown"
Diagnose(ch, r, op, n) ==
  IF ~ch.exists THEN "notfound"
  ELSE IF ~ch.isGroupChat THEN "wrongtype"
  ELSE IF ch.groupAdmin # r THEN "notadmin"
  ELSE IF op = "transferAdmin" /\ n \notin ch.users THEN "notmember"
  ELSE "unknown"

\* HTTP status of a response
Status(tag) ==
  CASE tag = "ok" -> 200
    [] tag = "degraded" -> 200
    [] tag = "created" -> 201
    [] tag \in {"invalid", "wrongtype", "notmember", "nonew", "transferfirst"} -> 400
    [] tag \in {"notadmin", "forbidden"} -> 403
    [] tag = "notfound" -> 404
    [] tag \in {"unknown", "error"} -> 500
    [] OTHER -> 0

Success(tag) == Status(tag) \in {200, 201}

\* io.to(room).emit(name, payload): delivered to the sockets joined to room
DeliverToAll(rcv, room, ev) ==
  [s \in DOMAIN rcv |-> IF sockets[s] = "open"
                     THEN Append(rcv[s], [ev EXCEPT !.room = room])
                     ELSE rcv[s]]
Deliver(rcv, room, ev) ==
  [s \in DOMAIN rcv |-> IF room \in rooms[s]
                     THEN Append(rcv[s], [ev EXCEPT !.room = room])
                     ELSE rcv[s]]

\* Concurrent calls are interchangeable: procs is a bag of call records.
Calls == BagToSet(procs)
Put(b, rec) == b (+) SetToBag({rec})
Swap(b, old, new) == (b (-) SetToBag({old})) (+) SetToBag({new})

CanStart == issued < MaxRequests

\* The controller call as it enters: arguments, and what the store held then.
Start(op, r, c, n) ==
  [IdleProc EXCEPT !.op = op, !.requester = r, !.chatId = c, !.target = n,
                   !.adminAt0 = IsGroupAdmin(ChatAt(c), r),
                   !.memberAt0 = n \in ChatAt(c).users,
                   !.sizeAt0 = Cardinality(ChatAt(c).users),
                   !.usersAt0 = ChatAt(c).users]

\* res.status(..).json(..): the call has answered
Respond(me, tag) == [me EXCEPT !.pc = "done", !.res = tag]

\* Chat.findOneAndUpdate(query, update, { new: true }) as the first store
\* access of rename / about / picture / transferAdmin: one atomic step.
FindOneAndUpdate(me, matched, newDoc) ==
  \E dbOk \in BOOLEAN :
    IF ~dbOk
      THEN /\ procs' = Put(procs, Respond(me, "error"))
           /\ UNCHANGED chats
      ELSE IF matched
        THEN /\ chats' = [chats EXCEPT ![me.chatId] = Touch(newDoc)]
             /\ procs' = Put(procs,
                            [me EXCEPT !.pc = "populate", !.doc = Touch(newDoc), !.wrote = TRUE,
                                       !.authAtWrite = IsGroupAdmin(ChatAt(me.chatId), me.requester)])
        ELSE /\ procs' = Put(procs, [me EXCEPT !.pc = "diag"])
             /\ UNCHANGED chats

socketVarsUnchanged ==
  UNCHANGED <<sockets, userData, rooms, onlineUsers, lastOnlineList, everSetup, relayLog,
               lastEmit>>

\* ------------------------------------------------ chatController.js
\* renameGroup: validation, then the conditional update
RenameGroup(r, c, name) ==
  LET me == Start("renameGroup", r, c, None) IN
  /\ CanStart
  /\ issued' = issued + 1
  /\ IF c = None \/ name = ""
       THEN /\ procs' = Put(procs, Respond(me, "invalid"))
            /\ UNCHANGED chats
       ELSE FindOneAndUpdate(me, AdminMatch(ChatAt(c), r),
                             [ChatAt(c) EXCEPT !.chatName = name])
  /\ UNCHANGED <<received, chatSeq, messages, msgSeq>>
  /\ socketVarsUnchanged

\* updateGroupAbout
UpdateGroupAbout(r, c, about) ==
  LET me == Start("updateGroupAbout", r, c, None) IN
  /\ CanStart
  /\ issued' = issued + 1
  /\ IF c = None
       THEN /\ procs' = Put(procs, Respond(me, "invalid"))
            /\ UNCHANGED chats
       ELSE FindOneAndUpdate(me, AdminMatch(ChatAt(c), r),
                             [ChatAt(c) EXCEPT !.about = about])
  /\ UNCHANGED <<received, chatSeq, messages, msgSeq>>
  /\ socketVarsUnchanged

\* updateGroupPic
UpdateGroupPic(r, c, pic) ==
  LET me == Start("updateGroupPic", r, c, None) IN
  /\ CanStart
  /\ issued' = issued + 1
  /\ IF c = None \/ pic = ""
       THEN /\ procs' = Put(procs, Respond(me, "invalid"))
            /\ UNCHANGED chats
       ELSE FindOneAndUpdate(me, AdminMatch(ChatAt(c), r),
                             [ChatAt(c) EXCEPT !.groupPic = pic])
  /\ UNCHANGED <<received, chatSeq, messages, msgSeq>>
  /\ socketVarsUnchanged

\* transferAdmin
TransferAdmin(r, c, n) ==
  LET me == Start("transferAdmin", r, c, n) IN
  /\ CanStart
  /\ issued' = issued + 1
  /\ IF c = None \/ n = None \/ r = n
       THEN /\ procs' = Put(procs, Respond(me, "invalid"))
            /\ UNCHANGED chats
       ELSE FindOneAndUpdate(me, TransferMatch(ChatAt(c), r, n),
                             [ChatAt(c) EXCEPT !.groupAdmin = n])
  /\ UNCHANGED <<received, chatSeq, messages, msgSeq>>
  /\ socketVarsUnchanged

\* The branch taken when the conditional update (or the admin findOne of
\* addToGroup / deleteGroup) matched nothing: Chat.findById and classify.
DiagnosticRead(me) ==
  /\ me.pc = "diag"
  /\ UNCHANGED issued
  /\ procs' = Swap(procs, me,
                 Respond(me, Diagnose(ChatAt(me.chatId), me.requester, me.op, me.target)))
  /\ UNCHANGED <<received, chats, chatSeq, messages, msgSeq>>
  /\ socketVarsUnchanged

\* populateChat(updatedChatRaw) has returned: broadcast "group updated" and
\* answer, or answer with the raw document when population failed.
PopulateAndBroadcast(me) ==
  /\ me.pc = "populate"
  /\ UNCHANGED issued
  /\ \E popOk \in BOOLEAN :
       IF popOk
         THEN /\ received' = Deliver(received, me.chatId,
                                     Event("group updated", me.chatId, me.doc))
              /\ procs' = Swap(procs, me,
                             Respond([me EXCEPT !.emitted = @ \cup {"group updated"}], "ok"))
         ELSE /\ procs' = Swap(procs, me, Respond([me EXCEPT !.popFailed = TRUE], "degraded"))
              /\ UNCHANGED received
  /\ UNCHANGED <<chats, chatSeq, messages, msgSeq>>
  /\ socketVarsUnchanged

\* [...new Set(array)]
Dedup(a) == SeqToSet(a)

\* User.find({ _id: { $in: ids } }); also what populate("users") keeps of an
\* id array: ids without a User document are dropped
ExistingUsersAll(ids) == ids
ExistingUsers(ids) == ids \cap Users

\* addToGroup: validation, Chat.findOne with the admin query, the member
\* filters and User.find (the User collection never changes)
AddToGroup(r, c, userIds) ==
  LET me == [Start("addToGroup", r, c, None) EXCEPT !.input = userIds]
      chat == ChatAt(c)
      uniqueUserIdsToAdd == Dedup(userIds)
      potentialNewMemberIds == {id \in uniqueUserIdsToAdd : id # r /\ id \notin chat.users}
      finalNewMemberIds == ExistingUsers(potentialNewMemberIds)
  IN
  /\ CanStart
  /\ issued' = issued + 1
  /\ procs' = Put(procs,
       IF c = None \/ Len(userIds) = 0 \/ None \in SeqToSet(userIds)
         THEN Respond(me, "invalid")
       ELSE IF ~AdminMatch(chat, r) THEN [me EXCEPT !.pc = "diag"]
       ELSE IF potentialNewMemberIds = {} THEN Respond(me, "nonew")
       ELSE IF finalNewMemberIds = {} THEN Respond(me, "nonew")
       ELSE [me EXCEPT !.pc = "add_update", !.ids = finalNewMemberIds])
  /\ UNCHANGED <<received, chats, chatSeq, messages, msgSeq>>
  /\ socketVarsUnchanged

\* Chat.updateOne({ _id: chatId }, { $addToSet: { users: { $each: ids } } })
AddUpdateOne(me) ==
  LET chat == ChatAt(me.chatId)
  IN
  /\ me.pc = "add_update"
  /\ UNCHANGED issued
  /\ \E dbOk \in BOOLEAN :
       IF ~dbOk
         THEN /\ procs' = Swap(procs, me, Respond(me, "error"))
              /\ UNCHANGED chats
         ELSE IF ~chat.exists
           THEN /\ procs' = Swap(procs, me, Respond(me, "notfound"))
                /\ UNCHANGED chats
           ELSE /\ chats' = [chats EXCEPT ![me.chatId] =
                                 Touch([chat EXCEPT !.users = @ \cup me.ids])]
                /\ procs' = Swap(procs, me,
                               [me EXCEPT !.pc = "add_refetch", !.wrote = TRUE,
                                          !.before = chat,
                                          !.after = Touch([chat EXCEPT !.users = @ \cup me.ids]),
                                          !.authAtWrite = IsGroupAdmin(chat, me.requester)])
  /\ UNCHANGED <<received, chatSeq, messages, msgSeq>>
  /\ socketVarsUnchanged

\* chatAfterUpdate = Chat.findById(chatId)
AddRefetch(me) ==
  /\ me.pc = "add_refetch"
  /\ UNCHANGED issued
  /\ procs' = Swap(procs, me, [me EXCEPT !.pc = "add_populate", !.doc = ChatAt(me.chatId)])
  /\ UNCHANGED <<received, chats, chatSeq, messages, msgSeq>>
  /\ socketVarsUnchanged

\* Deliver "added to group" to the personal room of every id in ids
RECURSIVE DeliverEach(_, _, _)
DeliverEach(rcv, ids, ev) ==
  IF ids = {} THEN rcv
  ELSE LET id == CHOOSE x \in ids : \A y \in ids : x <= y
       IN DeliverEach(Deliver(rcv, id, ev), ids \ {id}, ev)

\* populateChat(chatAfterUpdate) has returned: emit and answer
AddPopulate(me) ==
  /\ me.pc = "add_populate"
  /\ UNCHANGED issued
  /\ \E popOk \in BOOLEAN :
       IF popOk /\ me.doc.exists
         THEN /\ received' =
                   DeliverEach(Deliver(received, me.chatId,
                                       Event("group updated", me.chatId, me.doc)),
                               me.ids, Event("added to group", me.chatId, me.doc))
              /\ procs' = Swap(procs, me,
                   Respond([me EXCEPT !.emitted = @ \cup {"group updated", "added to group"},
                                      !.notified = me.ids],
                           "ok"))
         ELSE /\ procs' = Swap(procs, me, Respond([me EXCEPT !.popFailed = TRUE], "degraded"))
              /\ UNCHANGED received
  /\ UNCHANGED <<chats, chatSeq, messages, msgSeq>>
  /\ socketVarsUnchanged

\* removeFromGroup's checks on the document read by Chat.findById
RemoveCheckAdminOnly(chat, r, userId) ==
  IF ~chat.exists THEN "notfound"
  ELSE IF ~chat.isGroupChat THEN "wrongtype"
  ELSE IF userId \notin chat.users THEN "notmember"
  ELSE IF chat.groupAdmin = r /\ userId = r /\ Cardinality(chat.users) > 1
    THEN "transferfirst"
  ELSE "go"
RemoveCheckNoTransferFirst(chat, r, userId) ==
  IF ~chat.exists THEN "notfound"
  ELSE IF ~chat.isGroupChat THEN "wrongtype"
  ELSE IF chat.groupAdmin # r /\ userId # r THEN "forbidden"
  ELSE IF userId \notin chat.users THEN "notmember"
  ELSE "go"
RemoveCheck(chat, r, userId) ==
  IF ~chat.exists THEN "notfound"
  ELSE IF ~chat.isGroupChat THEN "wrongtype"
  ELSE IF chat.groupAdmin # r /\ userId # r THEN "forbidden"
  ELSE IF userId \notin chat.users THEN "notmember"
  ELSE IF chat.groupAdmin = r /\ userId = r /\ Cardinality(chat.users) > 1
    THEN "transferfirst"
  ELSE "go"

\* removeFromGroup: validation, Chat.findById, authorization checks
RemoveFromGroup(r, c, userId) ==
  LET me == Start("removeFromGroup", r, c, userId)
      verdict == RemoveCheck(ChatAt(c), r, userId)
  IN
  /\ CanStart
  /\ issued' = issued + 1
  /\ procs' = Put(procs,
       IF c = None \/ userId = None THEN Respond(me, "invalid")
       ELSE IF verdict # "go" THEN Respond(me, verdict)
       ELSE [me EXCEPT !.pc = "rm_update"])
  /\ UNCHANGED <<received, chats, chatSeq, messages, msgSeq>>
  /\ socketVarsUnchanged

\* Chat.findByIdAndUpdate(chatId, { $pull: { users: userId } }, { new: true })
RemovePull(me) ==
  LET chat == ChatAt(me.chatId)
      newDoc == Touch([chat EXCEPT !.users = @ \ {me.target}])
  IN
  /\ me.pc = "rm_update"
  /\ UNCHANGED issued
  /\ \E dbOk \in BOOLEAN :
       IF ~dbOk
         THEN /\ procs' = Swap(procs, me, Respond(me, "error"))
              /\ UNCHANGED chats
         ELSE IF ~chat.exists
           THEN /\ procs' = Swap(procs, me, Respond(me, "notfound"))
                /\ UNCHANGED chats
           ELSE /\ chats' = [chats EXCEPT ![me.chatId] = newDoc]
                /\ procs' = Swap(procs, me,
                               [me EXCEPT !.pc = "rm_populate", !.doc = newDoc, !.wrote = TRUE,
                                          !.authAtWrite = (IsGroupAdmin(chat, me.requester)
                                                           \/ me.target = me.requester)])
  /\ UNCHANGED <<received, chatSeq, messages, msgSeq>>
  /\ socketVarsUnchanged

\* populateChat(updateResult) has returned: emit "removed from group" to the
\* user's room and "user left group" to the chat room, then fetchSockets
RemovePopulateRoomOnly(me) ==
  /\ me.pc = "rm_populate"
  /\ UNCHANGED issued
  /\ \E popOk \in BOOLEAN :
       IF popOk
         THEN /\ received' = Deliver(received, me.chatId,
                                     Event("user left group", me.chatId, me.doc))
              /\ procs' = Swap(procs, me,
                   [me EXCEPT !.pc = "rm_leave", !.emitted = @ \cup {"user left group"}])
         ELSE /\ procs' = Swap(procs, me, Respond([me EXCEPT !.popFailed = TRUE], "degraded"))
              /\ UNCHANGED received
  /\ UNCHANGED <<chats, chatSeq, messages, msgSeq>>
  /\ socketVarsUnchanged
RemovePopulate(me) ==
  /\ me.pc = "rm_populate"
  /\ UNCHANGED issued
  /\ \E popOk \in BOOLEAN :
       IF popOk
         THEN /\ received' =
                   Deliver(Deliver(received, me.target,
                                   Event("removed from group", me.chatId, me.doc)),
                           me.chatId, Event("user left group", me.chatId, me.doc))
              /\ procs' = Swap(procs, me,
                   [me EXCEPT !.pc = "rm_leave",
                              !.emitted = @ \cup {"removed from group", "user left group"}])
         ELSE /\ procs' = Swap(procs, me, Respond([me EXCEPT !.popFailed = TRUE], "degraded"))
              /\ UNCHANGED received
  /\ UNCHANGED <<chats, chatSeq, messages, msgSeq>>
  /\ socketVarsUnchanged

\* io.in(userId).fetchSockets() has resolved (each socket of the user's room
\* that is in the chat room leaves it) or has thrown (caught and logged);
\* then the success response
RemoveForceLeave(me) ==
  /\ me.pc = "rm_leave"
  /\ UNCHANGED issued
  /\ \E fetched \in BOOLEAN :
       rooms' = [s \in DOMAIN rooms |->
                   IF fetched /\ me.target \in rooms[s]
                     THEN rooms[s] \ {me.chatId} ELSE rooms[s]]
  /\ procs' = Swap(procs, me, Respond(me, "ok"))
  /\ UNCHANGED <<sockets, userData, onlineUsers, lastOnlineList, everSetup, relayLog,
               lastEmit>>
  /\ UNCHANGED <<received, chats, chatSeq, messages, msgSeq>>

\* deleteGroup: Chat.findOne with the admin query; on a match "group deleted"
\* is emitted to the chat room at once, before anything is deleted
DeleteGroup(r, c) ==
  LET me == Start("deleteGroup", r, c, None) IN
  /\ CanStart
  /\ issued' = issued + 1
  /\ IF AdminMatch(ChatAt(c), r)
       THEN /\ received' = Deliver(received, c, Event("group deleted", c, ChatAt(c)))
            /\ procs' = Put(procs, [me EXCEPT !.pc = "dg_leave", !.doc = ChatAt(c),
                                              !.emitted = @ \cup {"group deleted"}])
       ELSE /\ procs' = Put(procs, [me EXCEPT !.pc = "diag"])
            /\ UNCHANGED received
  /\ UNCHANGED <<chats, chatSeq, messages, msgSeq>>
  /\ socketVarsUnchanged

\* io.in(chatId).fetchSockets() has resolved (every socket of the room leaves
\* it) or has thrown (caught and logged)
DeleteForceLeave(me) ==
  /\ me.pc = "dg_leave"
  /\ UNCHANGED issued
  /\ \E fetched \in BOOLEAN :
       rooms' = [s \in DOMAIN rooms |->
                   IF fetched THEN rooms[s] \ {me.chatId} ELSE rooms[s]]
  /\ procs' = Swap(procs, me, [me EXCEPT !.pc = "dg_delete"])
  /\ UNCHANGED <<sockets, userData, onlineUsers, lastOnlineList, everSetup, relayLog,
               lastEmit>>
  /\ UNCHANGED <<received, chats, chatSeq, messages, msgSeq>>

\* Chat.deleteOne({ _id: chatId })
DeleteOne(me) ==
  /\ me.pc = "dg_delete"
  /\ UNCHANGED issued
  /\ \E dbOk \in BOOLEAN :
       IF ~dbOk
         THEN /\ procs' = Swap(procs, me, Respond(me, "error"))
              /\ UNCHANGED chats
         ELSE /\ chats' = [chats EXCEPT ![me.chatId] = NoChat]
              /\ procs' = Swap(procs, me,
                   [me EXCEPT !.pc = "dg_messages", !.wrote = TRUE,
                              !.before = ChatAt(me.chatId),
                              !.authAtWrite = IsGroupAdmin(ChatAt(me.chatId), me.requester)])
  /\ UNCHANGED <<received, chatSeq, messages, msgSeq>>
  /\ socketVarsUnchanged

\* Message.deleteMany({ chat: chatId }), then the success response; ids keeps
\* what messageDeletionResult counts
DeleteManySkipped(me) ==
  /\ me.pc = "dg_messages"
  /\ procs' = Swap(procs, me, Respond(me, "ok"))
  /\ UNCHANGED <<issued, received, chats, chatSeq, messages, msgSeq>>
  /\ socketVarsUnchanged
DeleteMany(me) ==
  /\ me.pc = "dg_messages"
  /\ UNCHANGED issued
  /\ \E dbOk \in BOOLEAN :
       IF ~dbOk
         THEN /\ procs' = Swap(procs, me, Respond(me, "error"))
              /\ UNCHANGED messages
         ELSE /\ messages' = {m \in messages : m.chat # me.chatId}
              /\ procs' = Swap(procs, me,
                   Respond([me EXCEPT !.ids = {m.id : m \in {x \in messages :
                                                               x.chat = me.chatId}}],
                           "ok"))
  /\ UNCHANGED <<received, chats, chatSeq, msgSeq>>
  /\ socketVarsUnchanged

\* Chat.create(doc): the new document's id
NextChatId == 10 + chatSeq + 1

\* accessChat: validation, User.findById (the User collection never changes),
\* Chat.findOne for an existing direct chat of the pair; an existing chat is
\* populated and returned
DirectChatsOfWrongType(a, b) ==
  {c \in ChatIds : chats[c].exists /\ chats[c].isGroupChat /\ chats[c].users = {a, b}}
DirectChatsOf(a, b) ==
  {c \in ChatIds : chats[c].exists /\ ~chats[c].isGroupChat /\ chats[c].users = {a, b}}

AccessChat(r, userId) ==
  LET me == [Start("accessChat", r, None, userId) EXCEPT
               !.foundAt0 = \E c \in ChatIds :
                              /\ chats[c].exists /\ ~chats[c].isGroupChat
                              /\ chats[c].users = {r, userId}]
  IN
  /\ CanStart
  /\ issued' = issued + 1
  /\ \E ok \in BOOLEAN :
       IF userId = None \/ userId = r
         THEN procs' = Put(procs, Respond(me, "invalid"))
       ELSE IF userId \notin Users
         THEN procs' = Put(procs, Respond(me, "notfound"))
       ELSE IF DirectChatsOf(r, userId) # {}
         THEN \E existingChat \in DirectChatsOf(r, userId) :
                procs' = Put(procs,
                  IF ok THEN Respond([me EXCEPT !.chatId = existingChat,
                                                !.doc = chats[existingChat]], "ok")
                        ELSE Respond([me EXCEPT !.popFailed = TRUE], "error"))
       ELSE procs' = Put(procs,
              IF ok THEN [me EXCEPT !.pc = "ac_create"] ELSE Respond(me, "error"))
  /\ UNCHANGED <<received, chats, chatSeq, messages, msgSeq>>
  /\ socketVarsUnchanged

\* Chat.create({ chatName: "sender", isGroupChat: false, users: [r, userId] })
AccessCreate(me) ==
  /\ me.pc = "ac_create"
  /\ UNCHANGED issued
  /\ \E dbOk \in BOOLEAN :
       IF ~dbOk
         THEN /\ procs' = Swap(procs, me, Respond(me, "error"))
              /\ UNCHANGED <<chats, chatSeq>>
         ELSE /\ chats' = [chats EXCEPT ![NextChatId] = NewDirect(me.requester, me.target)]
              /\ chatSeq' = chatSeq + 1
              /\ procs' = Swap(procs, me,
                   [me EXCEPT !.pc = "ac_refetch", !.chatId = NextChatId, !.wrote = TRUE])
  /\ UNCHANGED <<received, messages, msgSeq>>
  /\ socketVarsUnchanged

\* chatToPopulate = Chat.findById(createdChat._id)
AccessRefetch(me) ==
  /\ me.pc = "ac_refetch"
  /\ UNCHANGED issued
  /\ procs' = Swap(procs, me,
                 IF ChatAt(me.chatId).exists
                   THEN [me EXCEPT !.pc = "ac_populate", !.doc = ChatAt(me.chatId)]
                   ELSE Respond(me, "error"))
  /\ UNCHANGED <<received, chats, chatSeq, messages, msgSeq>>
  /\ socketVarsUnchanged

\* populateChat(chatToPopulate) has returned: emit "new_chat" to the other
\* user's room and answer 201, or answer 500
AccessPopulate(me) ==
  /\ me.pc = "ac_populate"
  /\ UNCHANGED issued
  /\ \E popOk \in BOOLEAN :
       IF popOk
         THEN /\ received' = Deliver(received, me.target,
                                     Event("new_chat", me.chatId, me.doc))
              /\ procs' = Swap(procs, me,
                   Respond([me EXCEPT !.emitted = @ \cup {"new_chat"}], "created"))
         ELSE /\ procs' = Swap(procs, me,
                             Respond([me EXCEPT !.popFailed = TRUE], "error"))
              /\ UNCHANGED received
  /\ UNCHANGED <<chats, chatSeq, messages, msgSeq>>
  /\ socketVarsUnchanged

\* createGroupChat: validation, then Chat.create with the creator as admin
CreateGroupChat(r, chatName, users) ==
  LET me == [Start("createGroupChat", r, None, None) EXCEPT !.input = users]
      memberIds == Dedup(users)
      finalUsers == {r} \cup memberIds
  IN
  /\ CanStart
  /\ issued' = issued + 1
  /\ \E dbOk \in BOOLEAN :
       IF chatName = "" \/ Len(users) < 2 \/ None \in memberIds
          \/ Cardinality(finalUsers) < 3
         THEN /\ procs' = Put(procs, Respond(me, "invalid"))
              /\ UNCHANGED <<chats, chatSeq>>
         ELSE IF ~dbOk
           THEN /\ procs' = Put(procs, Respond(me, "error"))
                /\ UNCHANGED <<chats, chatSeq>>
           ELSE /\ chats' = [chats EXCEPT ![NextChatId] = NewGroup(chatName, finalUsers, r)]
                /\ chatSeq' = chatSeq + 1
                /\ procs' = Put(procs,
                     [me EXCEPT !.pc = "cg_refetch", !.chatId = NextChatId,
                                !.ids = finalUsers \ {r}, !.wrote = TRUE,
                                !.after = NewGroup(chatName, finalUsers, r)])
  /\ UNCHANGED <<received, messages, msgSeq>>
  /\ socketVarsUnchanged

\* groupToPopulate = Chat.findById(createdGroup._id)
CreateGroupRefetch(me) ==
  /\ me.pc = "cg_refetch"
  /\ UNCHANGED issued
  /\ procs' = Swap(procs, me,
                 IF ChatAt(me.chatId).exists
                   THEN [me EXCEPT !.pc = "cg_populate", !.doc = ChatAt(me.chatId)]
                   ELSE Respond(me, "error"))
  /\ UNCHANGED <<received, chats, chatSeq, messages, msgSeq>>
  /\ socketVarsUnchanged

\* populateChat(groupToPopulate) has returned: "added to group" goes to the
\* room of every populated member but the creator
CreateGroupPopulate(me) ==
  /\ me.pc = "cg_populate"
  /\ UNCHANGED issued
  /\ \E popOk \in BOOLEAN :
       IF popOk
         THEN /\ received' = DeliverEach(received,
                                         ExistingUsers(me.doc.users) \ {me.requester},
                                         Event("added to group", me.chatId, me.doc))
              /\ procs' = Swap(procs, me,
                   Respond([me EXCEPT !.emitted = @ \cup {"added to group"},
                                      !.notified = ExistingUsers(me.doc.users)
                                                     \ {me.requester}],
                           "created"))
         ELSE /\ procs' = Swap(procs, me,
                             Respond([me EXCEPT !.popFailed = TRUE], "error"))
              /\ UNCHANGED received
  /\ UNCHANGED <<chats, chatSeq, messages, msgSeq>>
  /\ socketVarsUnchanged

\* getChatById: Chat.findOne({ _id, users: requester }), then populateChat
GetChatById(r, c) ==
  LET me == [Start("getChatById", r, c, r) EXCEPT !.doc = ChatAt(c)] IN
  /\ CanStart
  /\ issued' = issued + 1
  /\ \E ok \in BOOLEAN :
       procs' = Put(procs,
         IF ~(ChatAt(c).exists /\ r \in ChatAt(c).users) THEN Respond(me, "notfound")
         ELSE IF ok THEN Respond(me, "ok")
         ELSE Respond([me EXCEPT !.popFailed = TRUE], "error"))
  /\ UNCHANGED <<received, chats, chatSeq, messages, msgSeq>>
  /\ socketVarsUnchanged

\* ------------------------------------------------ messageController
\* sendMessage: validation, then Chat.findOne({ _id, users: sender })
SendMessage(r, c, content) ==
  LET me == Start("sendMessage", r, c, r) IN
  /\ CanStart
  /\ issued' = issued + 1
  /\ procs' = Put(procs,
       IF content = "" \/ c = None THEN Respond(me, "invalid")
       ELSE IF ~(ChatAt(c).exists /\ r \in ChatAt(c).users) THEN Respond(me, "forbidden")
       ELSE [me EXCEPT !.pc = "sm_create"])
  /\ UNCHANGED <<received, chats, chatSeq, messages, msgSeq>>
  /\ socketVarsUnchanged

\* Message.create({ sender, content, chat })
SendCreate(me) ==
  LET id == 30 + msgSeq + 1 IN
  /\ me.pc = "sm_create"
  /\ UNCHANGED issued
  /\ \E dbOk \in BOOLEAN :
       IF ~dbOk
         THEN /\ procs' = Swap(procs, me, Respond(me, "error"))
              /\ UNCHANGED <<messages, msgSeq>>
         ELSE /\ messages' = messages \cup {[id |-> id, chat |-> me.chatId,
                                             sender |-> me.requester]}
              /\ msgSeq' = msgSeq + 1
              /\ procs' = Swap(procs, me,
                   [me EXCEPT !.pc = "sm_populate", !.msg = id, !.wrote = TRUE])
  /\ UNCHANGED <<received, chats, chatSeq>>
  /\ socketVarsUnchanged

\* message.populate("sender"), message.populate("chat"): a chat that is gone
\* populates to null and the call answers 500
SendPopulate(me) ==
  /\ me.pc = "sm_populate"
  /\ UNCHANGED issued
  /\ \E popOk \in BOOLEAN :
       procs' = Swap(procs, me,
         IF popOk /\ ChatAt(me.chatId).exists
           THEN [me EXCEPT !.pc = "sm_latest", !.doc = ChatAt(me.chatId)]
           ELSE Respond(me, "error"))
  /\ UNCHANGED <<received, chats, chatSeq, messages, msgSeq>>
  /\ socketVarsUnchanged

\* Chat.findByIdAndUpdate(chatId, { latestMessage }), then "message received"
\* and "latest message update" to the chat room and the 201 response
SendLatestAndEmit(me) ==
  /\ me.pc = "sm_latest"
  /\ UNCHANGED issued
  /\ \E dbOk \in BOOLEAN :
       IF ~dbOk
         THEN /\ procs' = Swap(procs, me, Respond(me, "error"))
              /\ UNCHANGED <<chats, received>>
         ELSE /\ chats' = IF ChatAt(me.chatId).exists
                            THEN [chats EXCEPT ![me.chatId] =
                                    Touch([ChatAt(me.chatId) EXCEPT !.latestMessage = me.msg])]
                            ELSE chats
              /\ received' =
                   Deliver(Deliver(received, me.chatId,
                                   Event("message received", me.chatId, me.doc)),
                           me.chatId, Event("latest message update", me.chatId, me.doc))
              /\ procs' = Swap(procs, me,
                   Respond([me EXCEPT !.emitted = @ \cup {"message received",
                                                          "latest message update"},
                                      !.before = ChatAt(me.chatId),
                                      !.after = chats'[me.chatId],
                                      !.msgStored = \E m \in messages : m.id = me.msg],
                           "created"))
  /\ UNCHANGED <<chatSeq, messages, msgSeq>>
  /\ socketVarsUnchanged

\* The async handler has returned; the request object is dropped.
Finish(me) ==
  /\ me.pc = "done"
  /\ UNCHANGED issued
  /\ procs' = procs (-) SetToBag({me})
  /\ UNCHANGED <<received, chats, chatSeq, messages, msgSeq>>
  /\ socketVarsUnchanged

\* A step of one of the controllers
ControllerStep ==
  \/ \E r \in Requesters, c \in ReqChats, name \in Names \cup {""} :
       RenameGroup(r, c, name)
  \/ \E r \in Requesters, c \in ReqChats, a \in Abouts :
       UpdateGroupAbout(r, c, a)
  \/ \E r \in Requesters, c \in ReqChats, g \in Pics \cup {""} :
       UpdateGroupPic(r, c, g)
  \/ \E r \in Requesters, c \in ReqChats, n \in Users :
       TransferAdmin(r, c, n)
  \/ \E r \in Requesters, c \in ReqChats, a \in AddInputs :
       AddToGroup(r, c, a)
  \/ \E me \in Calls : AddUpdateOne(me)
  \/ \E me \in Calls : AddRefetch(me)
  \/ \E me \in Calls : AddPopulate(me)
  \/ \E r \in Requesters, c \in ReqChats, n \in Users :
       RemoveFromGroup(r, c, n)
  \/ \E me \in Calls : RemovePull(me)
  \/ \E me \in Calls : RemovePopulate(me)
  \/ \E me \in Calls : RemoveForceLeave(me)
  \/ \E me \in Calls : DiagnosticRead(me)
  \/ \E r \in Requesters, c \in ReqChats : DeleteGroup(r, c)
  \/ \E me \in Calls : DeleteForceLeave(me)
  \/ \E me \in Calls : DeleteOne(me)
  \/ \E me \in Calls : DeleteMany(me)
  \/ \E r \in Requesters, n \in Requesters \cup {3} : AccessChat(r, n)
  \/ \E me \in Calls : AccessCreate(me)
  \/ \E me \in Calls : AccessRefetch(me)
  \/ \E me \in Calls : AccessPopulate(me)
  \/ \E r \in Requesters, name \in Names \cup {""}, g \in GroupInputs :
       CreateGroupChat(r, name, g)
  \/ \E me \in Calls : CreateGroupRefetch(me)
  \/ \E me \in Calls : CreateGroupPopulate(me)
  \/ \E r \in Requesters \cup {4}, c \in ReqChats : GetChatById(r, c)
  \/ \E r \in Requesters \cup {4}, c \in ReqChats, t \in Contents : SendMessage(r, c, t)
  \/ \E me \in Calls : SendCreate(me)
  \/ \E me \in Calls : SendPopulate(me)
  \/ \E me \in Calls : SendLatestAndEmit(me)
  \/ \E me \in Calls : PopulateAndBroadcast(me)

\* A response leaves the server (Finish) before the next store operation or
\* request is taken up: a finished call's locals influence nothing.
NoneDone == \A q \in Calls : q.pc # "done"

NextChat ==
  \/ NoneDone /\ ControllerStep
  \/ \E me \in Calls : Finish(me)

SpecChat == Init /\ [][NextChat]_vars

\* transferAdmin alone, with every answered call kept on record, so that the
\* outcomes of calls that ran concurrently can be compared.
NextTransfer ==
  \/ \E r \in Requesters, c \in ReqChats, n \in Users : TransferAdmin(r, c, n)
  \/ \E me \in Calls : DiagnosticRead(me)
  \/ \E me \in Calls : PopulateAndBroadcast(me)

SpecTransfer == Init /\ [][NextTransfer]_vars

\* The socket handlers together with the admin's calls on group 11 that
\* broadcast to its room: what connections receive while they join, leave and
\* disconnect. Sockets set up as user 2, the member that is removed, or not
\* at all, and join room 11.
RoomStep ==
  \/ \E c \in Conns : Connect(c)
  \/ \E c \in Conns : Setup(c, 2)
  \/ \E c \in Conns : JoinChat(c, 11)
  \/ \E c \in Conns : Disconnect(c)
  \/ \E name \in Names : RenameGroup(1, 11, name)
  \/ \E a \in Abouts : UpdateGroupAbout(1, 11, a)
  \/ RemoveFromGroup(1, 11, 2)
  \/ DeleteGroup(1, 11)
  \/ \E me \in Calls : DiagnosticRead(me)
  \/ \E me \in Calls : PopulateAndBroadcast(me)
  \/ \E me \in Calls : RemovePull(me)
  \/ \E me \in Calls : RemovePopulate(me)
  \/ \E me \in Calls : RemoveForceLeave(me)
  \/ \E me \in Calls : DeleteForceLeave(me)
  \/ \E me \in Calls : DeleteOne(me)
  \/ \E me \in Calls : DeleteMany(me)

NextRoom ==
  \/ NoneDone /\ RoomStep
  \/ \E me \in Calls : Finish(me)

SpecRoom == Init /\ [][NextRoom]_vars

\* removeFromGroup alone, on group 11 as earlier removals by its admin have
\* left it (members {1,2,3}, {1,2}, {1,3} or {1}), every answered call kept
\* on record.
InitRemove ==
  /\ InitPresence
  /\ received = [c \in Conns |-> <<>>]
  /\ \E removed \in SUBSET {2, 3} :
       chats = [c \in ChatIds |->
                  IF c = 11
                    THEN [NewGroup("n0", {1, 2, 3} \ removed, 1) EXCEPT
                            !.updatedAt = Cardinality(removed)]
                    ELSE NoChat]
  /\ chatSeq = 1
  /\ messages = {}
  /\ msgSeq = 0
  /\ procs = EmptyBag
  /\ issued = 0

NextRemove ==
  \/ \E r \in Requesters, c \in ReqChats, n \in Users : RemoveFromGroup(r, c, n)
  \/ \E me \in Calls : RemovePull(me)
  \/ \E me \in Calls : RemovePopulate(me)
  \/ \E me \in Calls : RemoveForceLeave(me)

SpecRemove == InitRemove /\ [][NextRemove]_vars

\* ------------------------------------------------ every user online
\* Users 1..4 each hold one connection that has completed setup: socket 20+u
\* carries userData u, sits in u's personal room and is onlineUsers[u].
OnlineConns == {20 + u : u \in Users}

InitOnline ==
  /\ sockets = [s \in OnlineConns |-> "open"]
  /\ userData = [s \in OnlineConns |-> s - 20]
  /\ rooms = [s \in OnlineConns |-> {s - 20}]
  /\ onlineUsers = <<<<1, 21>>, <<2, 22>>, <<3, 23>>, <<4, 24>>>>
  /\ lastOnlineList = <<1, 2, 3, 4>>
  /\ everSetup = [u \in SetupIds |-> {20 + u}]
  /\ relayLog = <<>>
  /\ lastEmit = [listTo |-> OnlineConns, ackTo |-> 24]
  /\ received = [s \in OnlineConns |-> <<>>]

\* The calls of one group's life, each made once the one before has answered:
\* user 1 creates a group with [2, 3] (it becomes chat 12), every user's
\* client joins room 12, then 1 adds [4], 1 removes 2, 1 hands the admin role
\* to 3, and 3 deletes the group.  Answered calls stay on record.
ScenarioCalls ==
  <<"createGroupChat", "addToGroup", "removeFromGroup", "transferAdmin", "deleteGroup">>

InitScenario ==
  /\ InitOnline
  /\ chats = [c \in ChatIds |-> IF c = 11 THEN NewGroup("n0", {1, 2, 3}, 1) ELSE NoChat]
  /\ chatSeq = 1
  /\ messages = {}
  /\ msgSeq = 0
  /\ procs = EmptyBag
  /\ issued = MaxRequests - Len(ScenarioCalls)

\* the k-th call of the scenario may be made
Turn(k) ==
  /\ issued = MaxRequests - Len(ScenarioCalls) + (k - 1)
  /\ \A me \in Calls : me.pc = "done"

AllJoined(c) == \A s \in OnlineConns : c \in rooms[s]

NextScenario ==
  \/ Turn(1) /\ CreateGroupChat(1, "n1", <<2, 3>>)
  \/ \E me \in Calls : CreateGroupRefetch(me)
  \/ \E me \in Calls : CreateGroupPopulate(me)
  \/ \E s \in OnlineConns : Turn(2) /\ 12 \notin rooms[s] /\ JoinChat(s, 12)
  \/ Turn(2) /\ AllJoined(12) /\ AddToGroup(1, 12, <<4>>)
  \/ \E me \in Calls : AddUpdateOne(me)
  \/ \E me \in Calls : AddRefetch(me)
  \/ \E me \in Calls : AddPopulate(me)
  \/ Turn(3) /\ RemoveFromGroup(1, 12, 2)
  \/ \E me \in Calls : RemovePull(me)
  \/ \E me \in Calls : RemovePopulate(me)
  \/ \E me \in Calls : RemoveForceLeave(me)
  \/ Turn(4) /\ TransferAdmin(1, 12, 3)
  \/ \E me \in Calls : PopulateAndBroadcast(me)
  \/ Turn(5) /\ DeleteGroup(3, 12)
  \/ \E me \in Calls : DeleteForceLeave(me)
  \/ \E me \in Calls : DeleteOne(me)
  \/ \E me \in Calls : DeleteMany(me)
  \/ \E me \in Calls : DiagnosticRead(me)

SpecScenario == InitScenario /\ [][NextScenario]_vars

\* ------------------------------------------------ group membership
\* createGroupChat and addToGroup with every user online, on group 11 and on
\* the groups created; the id arrays may name an id without a User document.
\* Answered calls stay on record.
InitGroup ==
  /\ InitOnline
  /\ chats = [c \in ChatIds |-> IF c = 11 THEN NewGroup("n0", {1, 2, 3}, 1) ELSE NoChat]
  /\ chatSeq = 1
  /\ messages = {}
  /\ msgSeq = 0
  /\ procs = EmptyBag
  /\ issued = 0

NextGroup ==
  \/ \E r \in Requesters, name \in Names \cup {""}, g \in GroupInputsAny :
       CreateGroupChat(r, name, g)
  \/ \E me \in Calls : CreateGroupRefetch(me)
  \/ \E me \in Calls : CreateGroupPopulate(me)
  \/ \E r \in Requesters, c \in ReqChats, a \in AddInputsAny : AddToGroup(r, c, a)
  \/ \E me \in Calls : AddUpdateOne(me)
  \/ \E me \in Calls : AddRefetch(me)
  \/ \E me \in Calls : AddPopulate(me)
  \/ \E me \in Calls : DiagnosticRead(me)

SpecGroup == InitGroup /\ [][NextGroup]_vars

\* ------------------------------------------------ messages and deletion
\* sendMessage by the members 1 and 2 and deleteGroup on group 11, every
\* answered call kept on record.
NextSend ==
  \/ \E r \in Requesters, t \in Contents : SendMessage(r, 11, t)
  \/ \E me \in Calls : SendCreate(me)
  \/ \E me \in Calls : SendPopulate(me)
  \/ \E me \in Calls : SendLatestAndEmit(me)
  \/ \E r \in Requesters : DeleteGroup(r, 11)
  \/ \E me \in Calls : DeleteForceLeave(me)
  \/ \E me \in Calls : DeleteOne(me)
  \/ \E me \in Calls : DeleteMany(me)
  \/ \E me \in Calls : DiagnosticRead(me)

SpecSend == Init /\ [][NextSend]_vars

\* ------------------------------------------------ a direct chat
\* The store also holds chat 12, the direct chat of users 1 and 2 that
\* accessChat created; both of them call the group operations on it.
\* Answered calls stay on record.
InitDirect ==
  /\ InitPresence
  /\ received = [c \in Conns |-> <<>>]
  /\ chats = [c \in ChatIds |->
                IF c = 11 THEN NewGroup("n0", {1, 2, 3}, 1)
                ELSE IF c = 12 THEN NewDirect(1, 2)
                ELSE NoChat]
  /\ chatSeq = 2
  /\ messages = {}
  /\ msgSeq = 0
  /\ procs = EmptyBag
  /\ issued = 0

NextDirect ==
  \/ \E r \in Requesters, name \in Names \cup {""} : RenameGroup(r, 12, name)
  \/ \E r \in Requesters, a \in Abouts : UpdateGroupAbout(r, 12, a)
  \/ \E r \in Requesters, g \in Pics \cup {""} : UpdateGroupPic(r, 12, g)
  \/ \E r \in Requesters, a \in AddInputs : AddToGroup(r, 12, a)
  \/ \E r \in Requesters, n \in Users : RemoveFromGroup(r, 12, n)
  \/ \E r \in Requesters, n \in Users : TransferAdmin(r, 12, n)
  \/ \E r \in Requesters : DeleteGroup(r, 12)
  \/ \E me \in Calls : DiagnosticRead(me)

SpecDirect == InitDirect /\ [][NextDirect]_vars

\* ------------------------------------------------ a lost race
\* Group 11 right after its creator, user 1, has handed the admin role to
\* user 2 (transferAdmin(1, 11, 2) has committed): requests of user 1 that
\* were made while 1 was the admin now reach the store.  Answered calls stay
\* on record.
InitRace ==
  /\ InitPresence
  /\ received = [c \in Conns |-> <<>>]
  /\ chats = [c \in ChatIds |->
                IF c = 11
                  THEN Touch([NewGroup("n0", {1, 2, 3}, 1) EXCEPT !.groupAdmin = 2])
                  ELSE NoChat]
  /\ chatSeq = 1
  /\ messages = {}
  /\ msgSeq = 0
  /\ procs = EmptyBag
  /\ issued = 0

NextRace ==
  \/ \E r \in Requesters, name \in Names : RenameGroup(r, 11, name)
  \/ \E r \in Requesters, a \in Abouts : UpdateGroupAbout(r, 11, a)
  \/ \E r \in Requesters, g \in Pics : UpdateGroupPic(r, 11, g)
  \/ \E r \in Requesters, n \in Users : TransferAdmin(r, 11, n)
  \/ \E me \in Calls : DiagnosticRead(me)
  \/ \E me \in Calls : PopulateAndBroadcast(me)

SpecRace == InitRace /\ [][NextRace]_vars

\* ================================================== properties: presence registry
LiveAs(u) == {c \in everSetup[u] : sockets[c] = "open"}

\* C1: onlineUsers[U] reflects exactly the connections that completed setup as
\* U and have not disconnected: U is resolvable iff at least one such
\* connection is live, and the resolved connection is one of them.
C1_RegistryReflectsLiveConnections ==
  \A u \in SetupIds :
    /\ HasKey(onlineUsers, u) <=> LiveAs(u) # {}
    /\ HasKey(onlineUsers, u) => Lookup(onlineUsers, u) \in LiveAs(u)

\* C2: once every connection that ever registered as U has disconnected, U is
\* absent from the registry and from the broadcast "get online users" list.
C2_NoGhostAfterAllDisconnected ==
  \A u \in SetupIds :
    (everSetup[u] # {} /\ \A c \in everSetup[u] : sockets[c] = "closed")
      => /\ ~HasKey(onlineUsers, u)
         /\ u \notin SeqToSet(lastOnlineList)

\* C3: no two keys of onlineUsers map to the same socket id.
C3_ConnectionUnderOneIdentity ==
  \A i, j \in 1..Len(onlineUsers) :
    i # j => onlineUsers[i][2] # onlineUsers[j][2]

\* ================================================== properties: group mutations
AdminOnlyOps == {"renameGroup", "updateGroupAbout", "updateGroupPic",
                 "addToGroup", "transferAdmin", "deleteGroup"}
ConditionalOps == {"renameGroup", "updateGroupAbout", "updateGroupPic",
                   "transferAdmin"}
ReadThenWriteOps == {"addToGroup", "removeFromGroup", "deleteGroup"}

\* C4: a call has emitted an event only if its persisted write has committed.
C4_EmitOnlyAfterCommit ==
  \A me \in Calls : me.emitted # {} => me.wrote

\* C5: a rename / about / picture / add / transfer / delete call whose
\* requester is not the group's admin, and a remove call whose requester is
\* neither the admin nor the target, never writes and answers with a failure.
Unauthorized(me) ==
  \/ me.op \in AdminOnlyOps /\ ~me.adminAt0
  \/ me.op = "removeFromGroup" /\ ~me.adminAt0 /\ me.target # me.requester

C5_UnauthorizedCallsFail ==
  \A me \in Calls :
    Unauthorized(me) => /\ ~me.wrote
                        /\ me.pc = "done" => ~Success(me.res)

\* A remove by a requester who is neither admin nor target was answered 403,
\* and an add by a non-admin was classified by the diagnostic read.
C5_Witness ==
  \E me \in Calls :
    /\ me.pc = "done" /\ Unauthorized(me)
    /\ \/ me.op = "removeFromGroup" /\ me.res = "forbidden"
       \/ me.op = "addToGroup" /\ me.res = "notadmin"

\* C6: the write of add-members, remove-member and delete is applied only if
\* the requester satisfies the authorization condition in the store state the
\* write is applied to.
C6_WriteConditionalOnAuthorization ==
  \A me \in Calls :
    (me.op \in ReadThenWriteOps /\ me.wrote) => me.authAtWrite

\* C7: name, about, picture and admin of a stored group change only in a step
\* of a conditional-update call whose requester is the group's admin in the
\* store state the update is applied to.
C7_AdminCheckAndUpdateAtomic ==
  [][\A c \in ChatIds :
       ( /\ chats[c].exists /\ chats'[c].exists
         /\ <<chats[c].chatName, chats[c].about, chats[c].groupPic, chats[c].groupAdmin>>
              # <<chats'[c].chatName, chats'[c].about, chats'[c].groupPic,
                   chats'[c].groupAdmin>> )
       => \E me \in BagToSet(procs') :
            /\ me.op \in ConditionalOps /\ me.pc = "populate" /\ me.chatId = c
            /\ me.requester = chats[c].groupAdmin
            /\ me.authAtWrite]_vars

\* A rename by user 1 has lost against "transfer admin 1 -> 2", which is still
\* in flight: the rename matched nothing and the name is unchanged.
C7_Witness ==
  \E me, other \in Calls :
    /\ me.op = "renameGroup" /\ me.requester = 1 /\ me.chatId = 11
    /\ me.pc = "diag" /\ ~me.wrote
    /\ other.op = "transferAdmin" /\ other.requester = 1 /\ other.target = 2
    /\ other.pc = "populate" /\ other.wrote
    /\ chats[11].groupAdmin = 2 /\ chats[11].chatName = "n0"

\* C8: of two answered transfer-admin calls by the same requester for the same
\* group to two different members, where the requester was the admin when the
\* first of them ran, the store answered both and nothing else wrote to
\* the group: exactly one succeeded, the other was answered "not admin" (403),
\* and the stored admin is the target of the one that succeeded.
RacingTransfers(x, y) ==
  /\ x # y
  /\ x.op = "transferAdmin" /\ y.op = "transferAdmin"
  /\ x.pc = "done" /\ y.pc = "done"
  /\ x.chatId = y.chatId /\ x.requester = y.requester
  /\ x.target # y.target
  /\ x.target # x.requester /\ y.target # y.requester
  /\ x.memberAt0 /\ y.memberAt0
  /\ x.adminAt0 \/ y.adminAt0
  /\ x.res # "error" /\ y.res # "error"
  /\ \A z \in Calls \ {x, y} : ~(z.wrote /\ z.chatId = x.chatId)

WonAgainst(x, y) ==
  /\ Success(x.res) /\ x.wrote
  /\ y.res = "notadmin" /\ Status(y.res) = 403 /\ ~y.wrote
  /\ chats[x.chatId].groupAdmin = x.target

C8_ConcurrentTransfersOneWinner ==
  \A x, y \in Calls :
    RacingTransfers(x, y) => (WonAgainst(x, y) \/ WonAgainst(y, x))

C8_Witness ==
  \E x, y \in Calls :
    /\ RacingTransfers(x, y) /\ WonAgainst(x, y)
    /\ x.requester = 1 /\ x.target = 3 /\ y.target = 2

\* C9: the admin of every stored group is one of its members.
C9_AdminIsMember ==
  \A c \in ChatIds :
    (chats[c].exists /\ chats[c].isGroupChat) => chats[c].groupAdmin \in chats[c].users

\* C10: there is at most one stored direct chat per unordered pair of users.
C10_OneDirectChatPerPair ==
  \A c, d \in ChatIds :
    (c # d /\ chats[c].exists /\ chats[d].exists
          /\ ~chats[c].isGroupChat /\ ~chats[d].isGroupChat)
      => chats[c].users # chats[d].users

\* ================================================== properties: conversations
\* C11: an accessChat call that found a direct chat of its pair creates
\* nothing, emits no "new_chat", and (unless the store read itself failed)
\* answers 200 with a direct chat of exactly that pair.
C11_ExistingDirectChatReturned ==
  \A me \in Calls :
    (me.op = "accessChat" /\ me.foundAt0) =>
      /\ ~me.wrote
      /\ "new_chat" \notin me.emitted
      /\ me.pc = "done"
      /\ me.res # "error" =>
           /\ me.res = "ok" /\ Status(me.res) = 200
           /\ me.doc.exists /\ ~me.doc.isGroupChat
           /\ me.doc.users = {me.requester, me.target}
           /\ chats[me.chatId] = me.doc

\* User 2 asks for the chat with user 1 that user 1 created earlier.
C11_Witness ==
  \E me \in Calls :
    /\ me.op = "accessChat" /\ me.requester = 2 /\ me.target = 1
    /\ me.foundAt0 /\ me.pc = "done" /\ me.res = "ok"
    /\ me.chatId = 12 /\ chatSeq = 2

\* C12: every stored group has at least three members.
C12_GroupHasThreeMembers ==
  \A c \in ChatIds :
    (chats[c].exists /\ chats[c].isGroupChat) => Cardinality(chats[c].users) >= 3

\* C13: a remove call with requester = admin = target, the admin being a
\* member: if the group had more than one member it is answered 400 "transfer
\* first" and writes nothing; if the admin was the only member it is not
\* rejected, and once answered by the store it has succeeded and the group's
\* member set is empty.
AdminSelfRemoval(me) ==
  /\ me.op = "removeFromGroup" /\ me.requester = me.target
  /\ me.adminAt0 /\ me.memberAt0

C13_AdminSelfRemoval ==
  \A me \in Calls :
    AdminSelfRemoval(me) =>
      /\ me.sizeAt0 > 1 =>
           /\ me.pc = "done" /\ me.res = "transferfirst" /\ Status(me.res) = 400
           /\ ~me.wrote
      /\ (me.sizeAt0 = 1 /\ me.pc = "done" /\ me.res # "error") =>
           /\ Success(me.res) /\ me.wrote
           /\ chats[me.chatId].exists /\ chats[me.chatId].users = {}

C13_Witness ==
  \E me \in Calls :
    /\ AdminSelfRemoval(me) /\ me.sizeAt0 = 1
    /\ me.pc = "done" /\ me.res = "ok"
    /\ chats[11].users = {} /\ chats[11].groupAdmin = 1

\* C14: when a deleteGroup call has answered 200, the chat is absent from the
\* store and no stored message references it; a getChatById for a chat id
\* that was handed out and is absent is answered 404.
C14_DeleteRemovesChatAndMessages ==
  \A me \in Calls :
    /\ (me.op = "deleteGroup" /\ me.pc = "done" /\ Success(me.res)) =>
         /\ ~chats[me.chatId].exists
         /\ \A m \in messages : m.chat # me.chatId
    /\ (me.op = "getChatById" /\ me.chatId <= 10 + chatSeq /\ ~me.doc.exists) =>
         /\ me.pc = "done" /\ me.res = "notfound" /\ Status(me.res) = 404

\* The admin's delete of group 11 has answered 200 and took a message with it.
C14_Witness ==
  \E me \in Calls :
    /\ me.op = "deleteGroup" /\ me.chatId = 11 /\ me.pc = "done" /\ me.res = "ok"
    /\ me.ids # {}
    /\ ~chats[11].exists /\ msgSeq > 0 /\ messages = {}

\* ================================================== properties: broadcasts
\* C15: the events a connection receives from a chat's room carry the chat's
\* state in the order the writes committed: a later event never carries an
\* earlier state (updatedAt) than an event received before it.
StateEvents == {"group updated", "user left group"}

C15_EventsInCommitOrder ==
  \A s \in Conns :
    \A i, j \in 1..Len(received[s]) :
      ( /\ i < j
        /\ received[s][i].chat = received[s][j].chat
        /\ received[s][i].name \in StateEvents
        /\ received[s][j].name \in StateEvents )
      => received[s][i].doc.updatedAt <= received[s][j].doc.updatedAt

\* C16: in every step, what a connection newly receives was broadcast to a
\* room it is joined to, and every connection joined to that room receives
\* it too; the "group updated" of an answered rename / about update reaches
\* exactly the connections that are in the chat's room.
NewEvents(s) ==
  {received'[s][i] : i \in (Len(received[s]) + 1)..Len(received'[s])}

C16_BroadcastReachesExactlyTheRoom ==
  [][ /\ \A s \in Conns :
           /\ Len(received'[s]) >= Len(received[s])
           /\ SubSeq(received'[s], 1, Len(received[s])) = received[s]
           /\ \A ev \in NewEvents(s) :
                /\ ev.room \in rooms[s]
                /\ \A t \in Conns : ev.room \in rooms[t] => ev \in NewEvents(t)
      /\ \A x \in BagToSet(procs') :
           ( /\ x \notin BagToSet(procs)
             /\ x.op \in {"renameGroup", "updateGroupAbout"}
             /\ x.pc = "done" /\ x.res = "ok" )
           => \A t \in Conns :
                (x.chatId \in rooms[t])
                  <=> (\E ev \in NewEvents(t) :
                         ev.name = "group updated" /\ ev.room = x.chatId /\ ev.doc = x.doc)
    ]_vars

\* One connection is in room 11 and has received "group updated"; the other
\* was in the room, disconnected before the broadcast and received nothing.
C16_Witness ==
  \E s, t \in Conns :
    /\ 11 \in rooms[s] /\ Len(received[s]) = 1
    /\ received[s][1].name = "group updated" /\ received[s][1].room = 11
    /\ sockets[t] = "closed" /\ received[t] = <<>>

\* C17: when a removeFromGroup call has answered 200, it has emitted "removed
\* from group" and "user left group", and no connection in the removed user's
\* personal room is joined to the chat's room.
C17_RemovedUserEvicted ==
  \A me \in Calls :
    (me.op = "removeFromGroup" /\ me.pc = "done" /\ Success(me.res)) =>
      /\ {"removed from group", "user left group"} \subseteq me.emitted
      /\ \A s \in Conns : me.target \in rooms[s] => me.chatId \notin rooms[s]

\* C18: when a deleteGroup call has answered 200, no connection is joined to
\* the chat's room.
C18_DeletedRoomEmpty ==
  \A me \in Calls :
    (me.op = "deleteGroup" /\ me.pc = "done" /\ Success(me.res)) =>
      \A s \in Conns : me.chatId \notin rooms[s]

\* ================================================== properties: degraded success
MutationOps == {"accessChat", "createGroupChat", "renameGroup", "updateGroupAbout",
                "updateGroupPic", "addToGroup", "removeFromGroup", "transferAdmin"}

\* C19: a mutation call whose write committed and whose populateChat then
\* failed is answered with a success, never with an error.
C19_PopulateFailureIsDegradedSuccess ==
  \A me \in Calls :
    (me.op \in MutationOps /\ me.pc = "done" /\ me.wrote /\ me.popFailed)
      => Success(me.res)

\* C20: a call answered with a degraded success has broadcast its event.
C20_DegradedSuccessStillBroadcasts ==
  \A me \in Calls :
    (me.pc = "done" /\ me.res = "degraded") => me.emitted # {}

\* ================================================== properties: signaling relay
\* the signaling event handled by the current step, if any
Relayed == Len(relayLog') = Len(relayLog) + 1
LastRelay == relayLog'[Len(relayLog')]

\* C21: a call-user / call-accepted / signal / call-ended whose target
\* identity has no entry in the presence registry delivers nothing to any
\* connection (the sender included) and changes no connection, room or
\* registry state.
C21_RelayToAbsentTargetIsSilent ==
  [][(Relayed /\ LastRelay.dest = None)
       => /\ received' = received
          /\ UNCHANGED <<sockets, userData, rooms, onlineUsers, lastOnlineList>>]_vars

C21_Witness ==
  \E i \in 1..Len(relayLog) :
    /\ relayLog[i].dest = None
    /\ relayLog[i].delivered = {}
    /\ sockets[relayLog[i].sender] = "open"

\* C22: a relay whose target identity has a registry entry delivers exactly
\* one event, to the one connection registered for the target, and the
\* event's "from" is the identity setup attached to the sending connection.
C22_RelayReachesTargetWithSenderIdentity ==
  \A i \in 1..Len(relayLog) :
    relayLog[i].dest # None
      => /\ relayLog[i].delivered = {relayLog[i].dest}
         /\ relayLog[i].from = relayLog[i].senderId

\* C23: a disconnected connection is returned by no registry lookup and no
\* signaling event is routed to it.
C23_DisconnectedConnectionUnreachable ==
  /\ \A c \in Conns, u \in SetupIds :
       sockets[c] = "closed" => Lookup(onlineUsers, u) # c
  /\ \A i \in 1..Len(relayLog) : relayLog[i].destState # "closed"

\* ================================================== properties: group life cycle
\* every call of the scenario has answered with plain success (no store
\* access failed, populateChat never returned null)
ScenarioRan ==
  /\ \A k \in 1..Len(ScenarioCalls) :
       \E me \in Calls : me.op = ScenarioCalls[k] /\ me.pc = "done"
                         /\ me.res \in {"created", "ok"}
  /\ \A me \in Calls : me.pc = "done" /\ me.res \in {"created", "ok"}

\* the state events of chat c that socket s has received, in order
RoomEvents(s, c) ==
  SelectSeq(received[s], LAMBDA e : e.chat = c /\ e.name \in StateEvents)

HasEvent(s, name, c) ==
  \E i \in 1..Len(received[s]) : received[s][i].name = name /\ received[s][i].chat = c

\* C24: after create(1; 2, 3), add [4], remove 2, transfer to 3 and delete by
\* 3 have run one after the other with all four users connected and joined
\* to room 12, the chat is absent; the connections of 1, 3 and 4 have seen
\* "group updated" (members 1..4), "user left group" (members 1, 3, 4) and
\* "group updated" (admin 3) in this order; user 4's connection has received
\* "added to group" and user 2's "removed from group".
C24_GroupLifeCycle ==
  ScenarioRan =>
    /\ ~chats[12].exists
    /\ \A s \in {21, 23, 24} :
         LET ev == RoomEvents(s, 12) IN
         /\ Len(ev) = 3
         /\ ev[1].name = "group updated" /\ ev[1].doc.users = {1, 2, 3, 4}
         /\ ev[2].name = "user left group" /\ ev[2].doc.users = {1, 3, 4}
         /\ ev[3].name = "group updated" /\ ev[3].doc.groupAdmin = 3
    /\ HasEvent(24, "added to group", 12)
    /\ HasEvent(22, "removed from group", 12)

C24_Witness ==
  /\ ScenarioRan
  /\ ~chats[12].exists
  /\ HasEvent(21, "group deleted", 12)

\* ================================================== properties: lost races
\* C25: a rename / about / picture / transfer call of the former admin whose
\* conditional write matched nothing because the admin had been changed is
\* answered 403 (or 404), never 500, whatever runs between its write and its
\* diagnostic read.
C25_LostRaceIsAuthorizationFailure ==
  \A me \in Calls :
    ( /\ me.op \in ConditionalOps
      /\ me.requester = 1 /\ me.chatId = 11
      /\ ~me.adminAt0
      /\ me.pc = "done"
      /\ me.res \notin {"invalid", "error"} )
    => Status(me.res) \in {403, 404}

\* ================================================== properties: admin transfer
\* C26: a transferAdmin call writes only if, in the store state its write is
\* applied to, the requester is the admin and the new admin is a member, and
\* what it writes is groupAdmin = new admin; a call naming the requester
\* itself or a non-member never writes and never answers with success.
C26_TransferNeedsAdminAndMember ==
  \A me \in Calls :
    me.op = "transferAdmin" =>
      /\ me.wrote => /\ me.authAtWrite
                     /\ me.memberAt0
                     /\ me.target # me.requester
                     /\ me.doc.groupAdmin = me.target
      /\ (me.target = me.requester \/ ~me.memberAt0)
           => /\ ~me.wrote
              /\ me.pc = "done" => ~Success(me.res)

C26_Witness ==
  \E me \in Calls :
    /\ me.op = "transferAdmin" /\ me.adminAt0 /\ ~me.memberAt0
    /\ me.pc = "done" /\ me.res = "notmember" /\ ~me.wrote
    /\ chats[me.chatId].groupAdmin = me.requester

\* ================================================== properties: membership
\* C27: createGroupChat creates a chat only when the creator and the ids of
\* the request are at least 3 distinct ids; the chat it creates has exactly
\* these as members and the creator as admin; when it answers 201, "added
\* to group" has gone to the personal room of every member of the chat it
\* read back except the creator, and to no other room.
C27_CreateGroupMembersAndNotification ==
  \A me \in Calls :
    me.op = "createGroupChat" =>
      LET asked == {me.requester} \cup SeqToSet(me.input) IN
      /\ me.wrote => /\ Cardinality(asked) >= 3
                     /\ me.after.users = asked
                     /\ me.after.groupAdmin = me.requester
      /\ me.res = "created" => me.notified = me.doc.users \ {me.requester}

\* C28: every member of every stored chat has a User document.
C28_MembersExist ==
  \A c \in ChatIds : chats[c].exists => chats[c].users \subseteq Users

\* the ids of an addToGroup request that qualify, judged on what the call read
Qualifying(me) ==
  {id \in SeqToSet(me.input) :
     id # me.requester /\ id \notin me.usersAt0 /\ id \in Users}

C30_MessageEventsAfterPersist ==
  \A me \in Calls :
    me.op = "sendMessage" =>
      /\ ~me.memberAt0 => /\ ~me.wrote
                          /\ me.emitted = {}
                          /\ me.pc = "done" => me.res \in {"invalid", "forbidden"}
      /\ me.emitted # {} => /\ me.msgStored
                            /\ me.after.exists
                            /\ me.after.latestMessage = me.msg

\* ================================================== properties: setup
\* C31: a setup with an identity u on connection c leaves c in u's personal
\* room with u attached, u in the registry resolving to c, the online list
\* (all keys of the registry) delivered to every connected socket and
\* "connected" delivered to c; a setup(u) on c taken in the state a setup(u)
\* on c produces changes neither the registry nor any room membership.
C31_SetupRegistersAndIsIdempotent ==
  [][\A c \in Conns, u \in SetupIds :
       Setup(c, u) =>
         /\ u \in rooms'[c]
         /\ userData'[c] = u
         /\ Lookup(onlineUsers', u) = c
         /\ lastOnlineList' = Keys(onlineUsers')
         /\ u \in SeqToSet(lastOnlineList')
         /\ lastEmit'.listTo = {s \in Conns : sockets[s] = "open"}
         /\ lastEmit'.ackTo = c
         /\ (userData[c] = u /\ Lookup(onlineUsers, u) = c /\ u \in rooms[c])
              => (onlineUsers' = onlineUsers /\ rooms' = rooms)]_vars

\* the last setup ran on a connection that is registered under the first of
\* two registered identities (a state in which its setup can be repeated)
C31_Witness ==
  /\ Len(onlineUsers) = 2
  /\ \E c \in Conns :
       /\ lastEmit.ackTo = c /\ sockets[c] = "open"
       /\ userData[c] = onlineUsers[1][1]
       /\ Lookup(onlineUsers, userData[c]) = c
       /\ lastEmit.listTo = {s \in Conns : sockets[s] = "open"}

\* ================================================== properties: deleted chats
\* chat id c has been handed out by Chat.create and its document is gone
Deleted(c) == c <= 10 + chatSeq /\ ~chats[c].exists

\* the call whose Chat.deleteOne removed the document
Deleter(me) == me.op = "deleteGroup" /\ me.wrote /\ me.before.exists

\* C32: once a chat is deleted its document never comes back, no message is
\* stored for it, and no call on its id other than the deleting one emits
\* an event or answers with success from then on.
C32_DeletedIsTerminal ==
  [][\A c \in ChatIds :
       Deleted(c) =>
         /\ ~chats'[c].exists
         /\ {m \in messages' : m.chat = c} \subseteq messages
         /\ \A n \in BagToSet(procs') \ Calls :
              (n.chatId = c /\ ~Deleter(n)) =>
                /\ ~(n.pc = "done" /\ Success(n.res))
                /\ n.emitted # {} => \E o \in Calls \ BagToSet(procs') :
                                        o.emitted = n.emitted]_vars

\* C33: when every call has answered and no deleteGroup call failed on a
\* store error, every stored message belongs to a chat that is in the store.
C33_NoOrphanMessages ==
  ( /\ \A me \in Calls : me.pc = "done"
    /\ \A me \in Calls : me.op = "deleteGroup" => me.res # "error" )
    => \A m \in messages : chats[m.chat].exists

\* the messages stored for chat c
MessagesOf(c) == {m \in messages : m.chat = c}

\* C34: when every call has answered and every sendMessage call on a chat
\* answered 201, the chat's latestMessage is the message of the chat that
\* was stored last (ids are handed out in the order of Message.create).
C34_LatestMessageIsLastPersisted ==
  \A c \in ChatIds :
    ( /\ chats[c].exists
      /\ MessagesOf(c) # {}
      /\ \A me \in Calls : me.pc = "done"
      /\ \A me \in Calls : (me.op = "sendMessage" /\ me.chatId = c)
                             => me.res = "created" )
    => \A m \in MessagesOf(c) : m.id <= chats[c].latestMessage

\* ================================================== properties: room access
MemberEvents == {"message received", "latest message update",
                 "group updated", "user left group"}

\* C35: a connection newly receives a message or group event of a chat only
\* if the identity attached to it is a member of that chat in the store at
\* the time of the broadcast.
C35_ChatEventsOnlyToMembers ==
  [][\A s \in Conns :
       \A ev \in NewEvents(s) :
         ev.name \in MemberEvents => userData[s] \in ChatAt(ev.chat).users]_vars

\* ================================================== properties: direct chats
\* C36: the direct chat of users 1 and 2 stays as accessChat created it (two
\* members, no admin, same name, about and picture, never deleted): every
\* rename / about / picture / add / remove / transfer / delete call on it
\* stops at its first read or at the diagnostic read, writes and emits
\* nothing, and is answered 400 "not a group" unless its input was invalid
\* or the store failed.
C36_DirectChatUntouched ==
  /\ chats[12] = NewDirect(1, 2)
  /\ Cardinality(chats[12].users) = 2
  /\ \A me \in Calls :
       /\ me.chatId = 12
       /\ me.pc \in {"diag", "done"}
       /\ ~me.wrote
       /\ me.emitted = {}
       /\ me.pc = "done" => me.res \in {"wrongtype", "invalid", "error"}

C36_Witness ==
  /\ \E me \in Calls : me.op = "removeFromGroup" /\ me.requester = me.target
                       /\ me.memberAt0 /\ me.res = "wrongtype"
  /\ \E me \in Calls : me.op = "deleteGroup" /\ me.res = "wrongtype"

\* ================================================== properties: one notification
\* how many events called name socket s has received for chat c
CountEvents(s, name, c) ==
  Cardinality({i \in 1..Len(received[s]) :
                 received[s][i].name = name /\ received[s][i].chat = c})

\* C37: group 11 only gains members through addToGroup and nobody is
\* removed, so a user becomes a member of it at most once: the user's
\* connection receives "added to group" for chat 11 at most once, and no two
\* addToGroup calls on one chat both answer 200 having notified the same
\* user.
C37_OneNotificationPerChange ==
  /\ \A u \in Users : CountEvents(20 + u, "added to group", 11) <= 1
  /\ \A me \in Calls :
       (me.op = "addToGroup" /\ me.res = "ok") =>
         /\ CopiesIn(me, procs) = 1
         /\ \A other \in Calls \ {me} :
              (other.op = "addToGroup" /\ other.res = "ok"
               /\ other.chatId = me.chatId)
                => other.notified \cap me.notified = {}

\* ================================================== properties: typing
\* C38: a "typing" / "stop typing" from a connection that has userData and
\* names a room adds exactly one event of that name, carrying the sender's
\* id and the room, to every other connection joined to the room and none
\* to the sender or anyone else; from a connection without userData (or
\* without a room) it delivers nothing; either way no socket, room or
\* registry state changes.
C38_TypingReachesOthersInRoom ==
  [][(Relayed /\ LastRelay.kind \in {"typing", "stop typing"}) =>
       LET e == LastRelay IN
       /\ UNCHANGED <<sockets, userData, rooms, onlineUsers, lastOnlineList>>
       /\ IF e.senderId = None \/ e.to = None
            THEN received' = received
            ELSE \A s \in Conns :
                   IF e.to \in rooms[s] /\ s # e.sender
                     THEN /\ Len(received'[s]) = Len(received[s]) + 1
                          /\ SubSeq(received'[s], 1, Len(received[s])) = received[s]
                          /\ \A ev \in NewEvents(s) :
                               /\ ev.name = e.kind
                               /\ ev.chat = e.to
                               /\ ev.doc.userId = userData[e.sender]
                     ELSE received'[s] = received[s]]_vars

\* a typing event has reached another connection in the room while the
\* sender, itself in the room, received nothing
C38_Witness ==
  \E i \in 1..Len(relayLog) :
    /\ relayLog[i].kind = "typing"
    /\ relayLog[i].to \in rooms[relayLog[i].sender]
    /\ relayLog[i].delivered # {}
    /\ relayLog[i].sender \notin relayLog[i].delivered

====
